---------------------------- MODULE Spec2Model ----------------------------
(***************************************************************************)
(* Model of hyperglass/models/config/devices.py: the Device model (id      *)
(* generation, platform and directive resolution, structured-output        *)
(* default, attribute validation) and the Devices directory (ingestion,    *)
(* lookup, plugin index).                                                  *)
(*                                                                         *)
(* Strings whose characters matter (device names, device ids, directive    *)
(* ids) are sequences of one-character strings.  Other strings (platforms, *)
(* attribute keys, plugin path segments) are TLA+ strings.                 *)
(*                                                                         *)
(* Of the Device model, the fields and validators that the directives, the *)
(* id, the platform and structured_output do not depend on (address, ssl,  *)
(* driver, network, credential, proxy, port) are left out, as is the       *)
(* renaming of legacy fields by check_legacy_fields.                       *)
(***************************************************************************)
EXTENDS Integers, Sequences, FiniteSets, TLC

VARIABLES
    pc,            \* position of the run
    rawname,       \* generate_id: the name given
    slug,          \* generate_id: the id derived from rawname
    reslug,        \* generate_id: the id derived from slug
    defn,          \* Device(definition): the raw definition
    device,        \* Device(definition): the outcome (a Device or a raised error)
    input_params,  \* Devices.__init__: the list of raw definitions
    constructed,   \* Devices.__init__: the Devices built so far, in order
    objects,       \* Devices.__init__: local set `objects`
    hostnames,     \* Devices.__init__: local set `hostnames`
    ids,           \* Devices.__init__: local set `ids`
    error,         \* Devices.__init__: the error that left the constructor
    directory,     \* the Devices object, once constructed
    accessor,      \* Devices.__getitem__: the accessor given
    lookup,        \* Devices.__getitem__: the outcome
    plugins        \* Devices.directive_plugins: the outcome

vars == <<pc, rawname, slug, reslug, defn, device, input_params, constructed,
          objects, hostnames, ids, error, directory, accessor, lookup, plugins>>

---------------------------------------------------------------------------
(* Bounds *)

MaxNameLen == 3

MaxDirectives == 2

MaxDevices == 2

---------------------------------------------------------------------------
(* Characters *)

UpperChars == {"A", "B"}

LowerChars == {"a", "b"}

DigitChars == {"1"}

\* Characters matched by \s and split on by str.split().
Whitespace == {" ", "\t"}

\* The characters names are drawn from: "#" stands for every character that
\* the class [^A-Za-z0-9\_\-\s] matches.
Alphabet == {"A", "b", "1", "_", "-", " ", "\t", "#"}

\* Code points, for the order of sorted(..., key=name).
Ord(c) ==
    CASE c = "\t" -> 9
      [] c = " " -> 32
      [] c = "#" -> 35
      [] c = "-" -> 45
      [] c = "1" -> 49
      [] c = "A" -> 65
      [] c = "B" -> 66
      [] c = "_" -> 95
      [] c = "a" -> 97
      [] c = "b" -> 98

\* str.lower() on one character.
ToLower(c) ==
    CASE c = "A" -> "a"
      [] c = "B" -> "b"
      [] OTHER -> c

\* str.lower()
Lower(s) == [i \in 1..Len(s) |-> ToLower(s[i])]

\* The complement of the class [^A-Za-z0-9\_\-\s].
IsKept(c) == c \in UpperChars \cup LowerChars \cup DigitChars \cup {"_", "-"} \cup Whitespace

\* re.sub(r"[^A-Za-z0-9\_\-\s]", "", name)
Scrub(name) == SelectSeq(name, IsKept)

\* str.split(): the maximal runs of non-whitespace characters.
RECURSIVE SplitAcc(_, _, _)
SplitAcc(s, cur, acc) ==
    IF s = <<>>
    THEN IF cur = <<>> THEN acc ELSE Append(acc, cur)
    ELSE IF Head(s) \in Whitespace
         THEN SplitAcc(Tail(s), <<>>, IF cur = <<>> THEN acc ELSE Append(acc, cur))
         ELSE SplitAcc(Tail(s), Append(cur, Head(s)), acc)

Split(s) == SplitAcc(s, <<>>, <<>>)

\* sep.join(words)
RECURSIVE Join(_, _)
Join(sep, words) ==
    IF words = <<>> THEN <<>>
    ELSE IF Len(words) = 1 THEN Head(words)
    ELSE Head(words) \o sep \o Join(sep, Tail(words))

\* A bug of generate_id: the result is not lower-cased.
generate_id_nolower(name) == Join(<<"_">>, Split(Scrub(name)))

\* Device._generate_id.generate_id
generate_id(name) == Lower(Join(<<"_">>, Split(Scrub(name))))

---------------------------------------------------------------------------
(* Values *)

None == [none |-> TRUE, v |-> <<>>]

Some(x) == [none |-> FALSE, v |-> x]

Names == UNION {[1..n -> Alphabet] : n \in 0..MaxNameLen}

\* str.startswith
StartsWith(s, prefix) ==
    /\ Len(s) >= Len(prefix)
    /\ SubSeq(s, 1, Len(prefix)) = prefix

Range(s) == {s[i] : i \in 1..Len(s)}

Max(S) == CHOOSE x \in S : \A y \in S : y <= x

Min(S) == CHOOSE x \in S : \A y \in S : x <= y

---------------------------------------------------------------------------
(* The collaborators of devices.py: constants and the directive catalog *)

\* hyperglass.constants.SCRAPE_HELPERS: alias -> canonical platform.
SCRAPE_HELPERS == [a \in {"ios", "junos"} |-> IF a = "ios" THEN "cisco_ios" ELSE "juniper"]

\* hyperglass.constants.SUPPORTED_STRUCTURED_OUTPUT
SUPPORTED_STRUCTURED_OUTPUT == {"juniper"}

\* The platforms hyperglass.util.validate_platform accepts.
SupportedPlatforms == {"cisco_ios", "juniper"}

\* hyperglass.util.validate_platform: (supported, platform)
validate_platform(platform) == platform \in SupportedPlatforms

\* A command template is a sequence of literal text and replacement fields.
Lit(t) == [kind |-> "lit", text |-> t]

Field(k) == [kind |-> "field", text |-> k]

\* hyperglass.util.get_fmt_keys: the field names of a format string, in order.
IsField(tok) == tok.kind = "field"

get_fmt_keys(template) ==
    LET fields == SelectSeq(template, IsField)
    IN  [i \in 1..Len(fields) |-> fields[i].text]

\* Directive ids.  The ids of built-in directives start with "__".
BgpId == <<"b", "g", "p">>

PingId == <<"p", "i", "n", "g">>

BuiltinRouteId == <<"_", "_", "r", "t">>

BuiltinPingId == <<"_", "_", "p", "i">>

BuiltinTraceId == <<"_", "_", "t", "r">>

UnknownId == <<"n", "o">>

\* use_state("directives"): the directive catalog, unique by id.
Catalog ==
    << [id |-> BgpId, builtin |-> FALSE, platforms |-> {},
        rules |-> << [commands |-> << <<Lit("show bgp vrf "), Field("vrf"),
                                         Lit(" "), Field("target")>> >>] >>,
        plugins |-> << <<"p1">>, <<"p2">> >>],
       [id |-> PingId, builtin |-> FALSE, platforms |-> {},
        rules |-> << [commands |-> << <<Lit("ping "), Field("target")>> >>],
                     [commands |-> << <<Lit("ping "), Field("target"),
                                         Lit(" source "), Field("src")>> >>] >>,
        plugins |-> << <<".", "p2">> >>],
       [id |-> BuiltinRouteId, builtin |-> TRUE, platforms |-> {"cisco_ios", "juniper"},
        rules |-> << [commands |-> << <<Lit("show route "), Field("target")>> >>] >>,
        plugins |-> <<>>],
       [id |-> BuiltinPingId, builtin |-> TRUE, platforms |-> {"cisco_ios"},
        rules |-> << [commands |-> << <<Lit("ping "), Field("target"),
                                         Lit(" source "), Field("src")>> >>] >>,
        plugins |-> << <<"p3">> >>],
       [id |-> BuiltinTraceId, builtin |-> TRUE, platforms |-> {"juniper"},
        rules |-> << [commands |-> << <<Lit("traceroute "), Field("target")>> >>] >>,
        plugins |-> << <<"p3">> >>] >>

\* Directives(...): a collection unique by id, the first occurrence kept.
RECURSIVE UniqueById(_, _)
UniqueById(ds, seen) ==
    IF ds = <<>> THEN <<>>
    ELSE IF Head(ds).id \in seen
         THEN UniqueById(Tail(ds), seen)
         ELSE <<Head(ds)>> \o UniqueById(Tail(ds), seen \cup {Head(ds).id})

\* Directives.__add__
DirectivesAdd(a, b) == UniqueById(a \o b, {})

\* Directives.filter_by_ids(*ids): the directives whose id is among ids.
filter_by_ids(directives, idlist) ==
    LET Wanted(d) == d.id \in Range(idlist)
    IN  SelectSeq(directives, Wanted)

\* Directives.device_builtins(platform=...): the built-ins of a platform.
device_builtins(directives, platform) ==
    LET IsBuiltin(d) == d.builtin /\ platform \in d.platforms
    IN  SelectSeq(directives, IsBuiltin)

\* Directives.matching(*ids): the directives whose id is among ids.
matching(directives, idlist) ==
    LET Wanted(d) == d.id \in Range(idlist)
    IN  SelectSeq(directives, Wanted)

---------------------------------------------------------------------------
(* Device *)

\* Raised errors: the type, the message, and the message's arguments.
NoError == [type |-> "None", msg |-> "", d |-> None, a |-> "", p |-> ""]

ValueError(m) == [type |-> "ValueError", msg |-> m, d |-> None, a |-> "", p |-> ""]

ConfigError(m, dname, attr, platform) ==
    [type |-> "ConfigError", msg |-> m, d |-> dname, a |-> attr, p |-> platform]

UnsupportedDevice(platform) ==
    [type |-> "UnsupportedDevice", msg |-> "unsupported", d |-> None, a |-> "", p |-> platform]

\* An absent `platform` / `structured_output`.
NoPlatform == "None"

Unset == "None"

\* Items of the raw `directives` list: a string, or a one-key map of options.
Str(x) == [kind |-> "str", s |-> x, k |-> "", vtype |-> "", b |-> FALSE, l |-> <<>>]

OptBool(key, val) == [kind |-> "map", s |-> <<>>, k |-> key, vtype |-> "bool", b |-> val, l |-> <<>>]

OptList(key, val) == [kind |-> "map", s |-> <<>>, k |-> key, vtype |-> "list", b |-> FALSE, l |-> val]

\* DirectiveOptions(merged): `builtins` defaults to True, other keys are
\* ignored; of several maps with the same key the last one wins.
DirectiveOptions(statements) ==
    LET at == {i \in 1..Len(statements) :
                  statements[i].kind = "map" /\ statements[i].k = "builtins"}
    IN  IF at = {}
        THEN [vtype |-> "bool", b |-> TRUE, l |-> <<>>]
        ELSE [vtype |-> statements[Max(at)].vtype,
              b |-> statements[Max(at)].b,
              l |-> statements[Max(at)].l]

\* The string statements that do not start with "__".
ExplicitIds(statements) ==
    LET IsId(st) == st.kind = "str" /\ ~StartsWith(st.s, <<"_", "_">>)
        strs == SelectSeq(statements, IsId)
    IN  [i \in 1..Len(strs) |-> strs[i].s]

\* Device._generate_id: (id, values), or the error raised.
\* values are the raw definition with name and display_name rewritten.
_generate_id(values) ==
    IF values.name.none
    THEN [ok |-> FALSE, error |-> ValueError("name is required."),
          id |-> <<>>, values |-> values]
    ELSE IF ~values.display_name.none
    THEN [ok |-> TRUE, error |-> NoError,
          id |-> generate_id(values.display_name.v),
          values |-> [values EXCEPT !.name = values.display_name, !.display_name = None]]
    ELSE [ok |-> TRUE, error |-> NoError,
          id |-> generate_id(values.name.v),
          values |-> [values EXCEPT !.display_name = None]]

\* A bug of validate_device: the built-ins are looked up by the platform as
\* declared, not as rewritten, and the declared platform is kept.
validate_device_norewrite(values) ==
    LET declared == values.platform
        platform == IF declared \in DOMAIN SCRAPE_HELPERS
                    THEN SCRAPE_HELPERS[declared] ELSE declared
        options == DirectiveOptions(values.directives)
        explicit == filter_by_ids(Catalog, ExplicitIds(values.directives))
        builtins == device_builtins(Catalog, declared)
        resolved == IF options.vtype = "bool" /\ options.b
                    THEN DirectivesAdd(explicit, builtins)
                    ELSE IF options.vtype = "list"
                    THEN DirectivesAdd(explicit, matching(builtins, options.l))
                    ELSE explicit
    IN  IF declared = NoPlatform
        THEN [ok |-> FALSE,
              error |-> ConfigError("missing platform", values.name, "", ""),
              values |-> values]
        ELSE IF ~validate_platform(platform)
        THEN [ok |-> FALSE, error |-> UnsupportedDevice(platform), values |-> values]
        ELSE [ok |-> TRUE, error |-> NoError,
              values |-> [values EXCEPT !.directives = resolved]]

\* A bug of validate_device: a list of built-in ids is treated like True.
validate_device_listall(values) ==
    LET declared == values.platform
        platform == IF declared \in DOMAIN SCRAPE_HELPERS
                    THEN SCRAPE_HELPERS[declared] ELSE declared
        options == DirectiveOptions(values.directives)
        explicit == filter_by_ids(Catalog, ExplicitIds(values.directives))
        builtins == device_builtins(Catalog, platform)
        resolved == IF options.vtype = "list" \/ options.b
                    THEN DirectivesAdd(explicit, builtins)
                    ELSE explicit
    IN  IF declared = NoPlatform
        THEN [ok |-> FALSE,
              error |-> ConfigError("missing platform", values.name, "", ""),
              values |-> values]
        ELSE IF ~validate_platform(platform)
        THEN [ok |-> FALSE, error |-> UnsupportedDevice(platform), values |-> values]
        ELSE [ok |-> TRUE, error |-> NoError,
              values |-> [values EXCEPT !.platform = platform, !.directives = resolved]]

\* Device.validate_device (the pre root validator): the values with the
\* platform rewritten and the directives resolved, or the error raised.
validate_device(values) ==
    LET declared == values.platform
        platform == IF declared \in DOMAIN SCRAPE_HELPERS
                    THEN SCRAPE_HELPERS[declared] ELSE declared
        options == DirectiveOptions(values.directives)
        explicit == filter_by_ids(Catalog, ExplicitIds(values.directives))
        builtins == device_builtins(Catalog, platform)
        resolved == IF options.vtype = "bool" /\ options.b
                    THEN DirectivesAdd(explicit, builtins)
                    ELSE IF options.vtype = "list"
                    THEN DirectivesAdd(explicit, matching(builtins, options.l))
                    ELSE explicit
    IN  IF declared = NoPlatform
        THEN [ok |-> FALSE,
              error |-> ConfigError("missing platform", values.name, "", ""),
              values |-> values]
        ELSE IF ~validate_platform(platform)
        THEN [ok |-> FALSE, error |-> UnsupportedDevice(platform), values |-> values]
        ELSE [ok |-> TRUE, error |-> NoError,
              values |-> [values EXCEPT !.platform = platform, !.directives = resolved]]

\* A bug of validate_structured_output: an explicit true is returned unchecked.
validate_structured_output_unchecked(value, values) ==
    IF value = "True"
    THEN [ok |-> TRUE, error |-> NoError, value |-> TRUE]
    ELSE IF value = Unset /\ values.platform \in SUPPORTED_STRUCTURED_OUTPUT
    THEN [ok |-> TRUE, error |-> NoError, value |-> TRUE]
    ELSE [ok |-> TRUE, error |-> NoError, value |-> FALSE]

\* Device.validate_structured_output: the value of the field, or the error raised.
validate_structured_output(value, values) ==
    IF value = "True"
    THEN IF values.platform \notin SUPPORTED_STRUCTURED_OUTPUT
         THEN [ok |-> FALSE,
               error |-> ConfigError("structured_output", values.name, "", values.platform),
               value |-> FALSE]
         ELSE [ok |-> TRUE, error |-> NoError, value |-> TRUE]
    ELSE IF value = Unset /\ values.platform \in SUPPORTED_STRUCTURED_OUTPUT
    THEN [ok |-> TRUE, error |-> NoError, value |-> TRUE]
    ELSE [ok |-> TRUE, error |-> NoError, value |-> FALSE]

\* Device.directive_commands: every command of every rule of every directive.
RECURSIVE Flatten(_)
Flatten(ss) == IF ss = <<>> THEN <<>> ELSE Head(ss) \o Flatten(Tail(ss))

directive_commands(self) ==
    Flatten([i \in 1..Len(self.directives) |->
        Flatten([j \in 1..Len(self.directives[i].rules) |->
            self.directives[i].rules[j].commands])])

\* Device.directive_ids
directive_ids(self) == [i \in 1..Len(self.directives) |-> self.directives[i].id]

\* A bug of _validate_directive_attrs: only the first command is looked at.
_validate_directive_attrs_first(self) ==
    LET commands == directive_commands(self)
        keys == IF commands = <<>> THEN {}
                ELSE Range(get_fmt_keys(commands[1])) \ {"target"}
        attrs == {k \in DOMAIN self.attrs : k \in keys}
    IN  {ConfigError("missing attribute", Some(self.name), key, "") : key \in keys \ attrs}

\* Device._validate_directive_attrs: the errors it may raise (none: it returns).
\* `keys` is a set, so which missing key is met first is not determined.
_validate_directive_attrs(self) ==
    LET commands == directive_commands(self)
        keys == UNION {Range(get_fmt_keys(commands[i])) : i \in 1..Len(commands)}
                    \ {"target"}
        attrs == {k \in DOMAIN self.attrs : k \in keys}
    IN  {ConfigError("missing attribute", Some(self.name), key, "") : key \in keys \ attrs}

NoDevice == [id |-> <<>>, name |-> <<>>, platform |-> "", directives |-> <<>>,
             structured_output |-> FALSE, attrs |-> <<>>]

Raised(e) == [ok |-> FALSE, device |-> NoDevice, error |-> e]

Built(dev) == [ok |-> TRUE, device |-> dev, error |-> NoError]

NotBuilt == [ok |-> FALSE, device |-> NoDevice, error |-> NoError]

\* Device.__init__: the outcomes of Device(definition).  The id is generated,
\* the model is validated (the pre root validator, then the field validators),
\* and the attributes are checked against the resolved commands.
DeviceInit(definition) ==
    LET g == _generate_id(definition)
        r == validate_device(g.values)
        so == validate_structured_output(r.values.structured_output, r.values)
        self == [id |-> g.id,
                 name |-> r.values.name.v,
                 platform |-> r.values.platform,
                 directives |-> r.values.directives,
                 structured_output |-> so.value,
                 attrs |-> r.values.attrs]
        missing == _validate_directive_attrs(self)
    IN  IF ~g.ok THEN {Raised(g.error)}
        ELSE IF ~r.ok THEN {Raised(r.error)}
        ELSE IF ~so.ok THEN {Raised(so.error)}
        ELSE IF missing # {} THEN {Raised(e) : e \in missing}
        ELSE {Built(self)}

---------------------------------------------------------------------------
(* Devices *)

\* HyperglassModelWithId.__eq__ / __hash__: two models with the same id are equal.
DeviceEq(a, b) == a.id = b.id

\* A bug of the ingestion: an equal element replaces the one in the set.
SetAddLast(S, d) == {e \in S : ~DeviceEq(e, d)} \cup {d}

\* set.add: an element equal to one of the set is not added (objects.add(device)).
SetAdd(S, d) == IF \E e \in S : DeviceEq(e, d) THEN S ELSE S \cup {d}

\* The order of str: by code point, a prefix first.
RECURSIVE NameLess(_, _)
NameLess(a, b) ==
    IF b = <<>> THEN FALSE
    ELSE IF a = <<>> THEN TRUE
    ELSE IF Ord(Head(a)) # Ord(Head(b)) THEN Ord(Head(a)) < Ord(Head(b))
    ELSE NameLess(Tail(a), Tail(b))

\* sorted(objects, key=lambda x: x.name)
RECURSIVE SortByName(_)
SortByName(S) ==
    IF S = {} THEN <<>>
    ELSE LET first == CHOOSE x \in S : \A y \in S : ~NameLess(y.name, x.name)
         IN  <<first>> \o SortByName(S \ {first})

\* list(a_set): the elements in some order.
ListOf(S) == {l \in [1..Cardinality(S) -> S] : Range(l) = S}

NoDirectory == [published |-> FALSE, ids |-> <<>>, hostnames |-> <<>>, objects |-> <<>>]

NotLooked == [called |-> FALSE, found |-> FALSE, device |-> NoDevice]

\* Devices.__getitem__: the first device whose id or name is the accessor, or
\* AttributeError (found: FALSE).
getitem(self, key) ==
    LET hits == {i \in 1..Len(self.objects) :
                    self.objects[i].id = key \/ self.objects[i].name = key}
    IN  IF hits = {}
        THEN [called |-> TRUE, found |-> FALSE, device |-> NoDevice]
        ELSE [called |-> TRUE, found |-> TRUE, device |-> self.objects[Min(hits)]]

\* pathlib.Path(p): a reference is a sequence of path segments; "." segments
\* vanish.
IsSegment(seg) == seg # "."

Path(p) == SelectSeq(p, IsSegment)

\* The set of directives in use by the devices of the directory.
DirectivesInUse(self) ==
    UNION {Range(self.objects[i].directives) : i \in 1..Len(self.objects)}

\* A bug of directive_plugins: only the first plugin of a directive is indexed.
PluginIndexFirst(self) ==
    LET directives == DirectivesInUse(self)
        keys == {Path(d.plugins[1]) : d \in {x \in directives : x.plugins # <<>>}}
    IN  [k \in keys |->
            {d.id : d \in {x \in directives :
                              x.plugins # <<>> /\ Path(x.plugins[1]) = k}}]

\* Devices.directive_plugins, before the sets become tuples: `result`.
PluginIndex(self) ==
    LET directives == DirectivesInUse(self)
        plugin_names == UNION {Range(d.plugins) : d \in directives}
        keys == {Path(p) : p \in plugin_names}
    IN  [k \in keys |->
            {d.id : d \in {x \in directives :
                              \E j \in 1..Len(x.plugins) :
                                  /\ x.plugins[j] \in plugin_names
                                  /\ Path(x.plugins[j]) = k}}]

\* Devices.directive_plugins: {k: tuple(v)}, each tuple in some order.
directive_plugins(self) ==
    LET result == PluginIndex(self)
        tuples == UNION {ListOf(result[k]) : k \in DOMAIN result}
    IN  {f \in [DOMAIN result -> tuples] : \A k \in DOMAIN result : f[k] \in ListOf(result[k])}

NotIndexed == [called |-> FALSE, result |-> <<>>]

---------------------------------------------------------------------------
(* Inputs *)

AttrsOf(keys) == [k \in keys |-> "v"]

\* The statements raw `directives` lists are made of.
RawItems ==
    {Str(BgpId), Str(PingId), Str(BuiltinPingId), Str(UnknownId),
     OptBool("builtins", TRUE), OptBool("builtins", FALSE),
     OptList("builtins", <<BuiltinPingId>>),
     OptList("builtins", <<BuiltinRouteId, BgpId>>),
     OptBool("color", FALSE)}

RawDirectives == UNION {[1..n -> RawItems] : n \in 0..MaxDirectives}

\* The raw definitions single devices are constructed from.
Definitions ==
    [name : {None, Some(<<"A", " ", "b">>), Some(<<"#">>)},
     display_name : {None, Some(<<"B">>)},
     platform : {NoPlatform, "ios", "cisco_ios", "junos", "juniper", "bogus"},
     directives : RawDirectives,
     structured_output : {Unset, "True", "False"},
     attrs : {AttrsOf({}), AttrsOf({"vrf"}), AttrsOf({"vrf", "src"})}]

\* The raw definitions directories are constructed from: valid ones, whose
\* names partly derive the same id, and three that fail.
ValidDefinitions ==
    [name : {Some(<<"A">>), Some(<<"A", "#">>), Some(<<"a">>), Some(<<"b">>)},
     display_name : {None},
     platform : {"ios"},
     directives : {<<OptBool("builtins", FALSE)>>,
                   <<Str(BgpId), OptBool("builtins", FALSE)>>,
                   <<Str(PingId)>>},
     structured_output : {Unset},
     attrs : {AttrsOf({"vrf", "src"})}]

InvalidDefinitions ==
    {[name |-> None, display_name |-> None, platform |-> "ios",
      directives |-> <<>>, structured_output |-> Unset, attrs |-> AttrsOf({"src"})],
     [name |-> Some(<<"A">>), display_name |-> None, platform |-> "bogus",
      directives |-> <<>>, structured_output |-> Unset, attrs |-> AttrsOf({"src"})],
     [name |-> Some(<<"b">>), display_name |-> None, platform |-> "junos",
      directives |-> <<Str(BgpId)>>, structured_output |-> Unset, attrs |-> AttrsOf({})]}

DirectoryDefinitions == ValidDefinitions \cup InvalidDefinitions

InputParams == UNION {[1..n -> DirectoryDefinitions] : n \in 0..MaxDevices}

NoDefinition ==
    [name |-> None, display_name |-> None, platform |-> NoPlatform,
     directives |-> <<>>, structured_output |-> Unset, attrs |-> AttrsOf({})]

---------------------------------------------------------------------------
(* Specification of generate_id *)

IdIdle ==
    /\ defn = NoDefinition /\ device = NotBuilt
    /\ input_params = <<>> /\ constructed = <<>>
    /\ objects = {} /\ hostnames = {} /\ ids = {}
    /\ error = NoError /\ directory = NoDirectory
    /\ accessor = <<>> /\ lookup = NotLooked /\ plugins = NotIndexed

InitId ==
    /\ pc = "name"
    /\ rawname \in Names
    /\ slug = <<>> /\ reslug = <<>>
    /\ IdIdle

\* device_id = generate_id(name)
DeriveId ==
    /\ pc = "name"
    /\ slug' = generate_id(rawname)
    /\ pc' = "id"
    /\ UNCHANGED <<rawname, reslug, defn, device, input_params, constructed, objects,
                   hostnames, ids, error, directory, accessor, lookup, plugins>>

\* generate_id applied to a derived id
RederiveId ==
    /\ pc = "id"
    /\ reslug' = generate_id(slug)
    /\ pc' = "id2"
    /\ UNCHANGED <<rawname, slug, defn, device, input_params, constructed, objects,
                   hostnames, ids, error, directory, accessor, lookup, plugins>>

NextId == DeriveId \/ RederiveId

SpecId == InitId /\ [][NextId]_vars

---------------------------------------------------------------------------
(* Specification of Device(definition) *)

InitDevice ==
    /\ pc = "definition"
    /\ defn \in Definitions
    /\ device = NotBuilt
    /\ rawname = <<>> /\ slug = <<>> /\ reslug = <<>>
    /\ input_params = <<>> /\ constructed = <<>>
    /\ objects = {} /\ hostnames = {} /\ ids = {}
    /\ error = NoError /\ directory = NoDirectory
    /\ accessor = <<>> /\ lookup = NotLooked /\ plugins = NotIndexed

\* device = Device(definition)
Construct ==
    /\ pc = "definition"
    /\ \E outcome \in DeviceInit(defn) : device' = outcome
    /\ pc' = "constructed"
    /\ UNCHANGED <<rawname, slug, reslug, defn, input_params, constructed, objects,
                   hostnames, ids, error, directory, accessor, lookup, plugins>>

NextDevice == Construct

SpecDevice == InitDevice /\ [][NextDevice]_vars

---------------------------------------------------------------------------
(* Specification of Devices(input_params) and its accessors *)

Init ==
    /\ pc = "ingest"
    /\ input_params \in InputParams
    /\ constructed = <<>>
    /\ objects = {} /\ hostnames = {} /\ ids = {}
    /\ error = NoError /\ directory = NoDirectory
    /\ accessor = <<>> /\ lookup = NotLooked /\ plugins = NotIndexed
    /\ rawname = <<>> /\ slug = <<>> /\ reslug = <<>>
    /\ defn = NoDefinition /\ device = NotBuilt

\* A bug of the loop of Devices.__init__: the error of a definition is caught
\* and the loop goes on with the next definition.
IngestSwallowing ==
    /\ pc = "ingest"
    /\ Len(constructed) < Len(input_params)
    /\ \E outcome \in DeviceInit(input_params[Len(constructed) + 1]) :
          IF outcome.ok
          THEN /\ hostnames' = hostnames \cup {outcome.device.name}
               /\ ids' = ids \cup {outcome.device.id}
               /\ objects' = SetAdd(objects, outcome.device)
               /\ constructed' = Append(constructed, outcome.device)
               /\ UNCHANGED <<pc, error>>
          ELSE /\ constructed' = Append(constructed, NoDevice)
               /\ error' = outcome.error
               /\ UNCHANGED <<pc, hostnames, ids, objects>>
    /\ UNCHANGED <<rawname, slug, reslug, defn, device, input_params, directory,
                   accessor, lookup, plugins>>

\* One turn of the loop of Devices.__init__: the next definition becomes a
\* Device and joins the three sets, or its error leaves the constructor.
Ingest ==
    /\ pc = "ingest"
    /\ Len(constructed) < Len(input_params)
    /\ \E outcome \in DeviceInit(input_params[Len(constructed) + 1]) :
          IF outcome.ok
          THEN /\ hostnames' = hostnames \cup {outcome.device.name}
               /\ ids' = ids \cup {outcome.device.id}
               /\ objects' = SetAdd(objects, outcome.device)
               /\ constructed' = Append(constructed, outcome.device)
               /\ UNCHANGED <<pc, error>>
          ELSE /\ pc' = "raised"
               /\ error' = outcome.error
               /\ UNCHANGED <<hostnames, ids, objects, constructed>>
    /\ UNCHANGED <<rawname, slug, reslug, defn, device, input_params, directory,
                   accessor, lookup, plugins>>

\* The end of Devices.__init__: the sets become lists, the objects sorted by name.
Publish ==
    /\ pc = "ingest"
    /\ Len(constructed) = Len(input_params)
    /\ \E idlist \in ListOf(ids), namelist \in ListOf(hostnames) :
          directory' = [published |-> TRUE, ids |-> idlist, hostnames |-> namelist,
                        objects |-> SortByName(objects)]
    /\ pc' = "done"
    /\ UNCHANGED <<rawname, slug, reslug, defn, device, input_params, constructed,
                   objects, hostnames, ids, error, accessor, lookup, plugins>>

\* devices[accessor], for an id, a name, or a string that is neither
GetItem ==
    /\ pc = "done"
    /\ \E key \in Range(directory.ids) \cup Range(directory.hostnames) \cup {<<"b", "b">>} :
          /\ accessor' = key
          /\ lookup' = getitem(directory, key)
    /\ pc' = "looked"
    /\ UNCHANGED <<rawname, slug, reslug, defn, device, input_params, constructed,
                   objects, hostnames, ids, error, directory, plugins>>

\* devices.directive_plugins()
DirectivePlugins ==
    /\ pc = "done"
    /\ \E result \in directive_plugins(directory) :
          plugins' = [called |-> TRUE, result |-> result]
    /\ pc' = "indexed"
    /\ UNCHANGED <<rawname, slug, reslug, defn, device, input_params, constructed,
                   objects, hostnames, ids, error, directory, accessor, lookup>>

Next == Ingest \/ Publish \/ GetItem \/ DirectivePlugins

Spec == Init /\ [][Next]_vars

---------------------------------------------------------------------------
(* Properties *)

\* The canonical platform of a declared platform.
Canonical(p) == IF p \in DOMAIN SCRAPE_HELPERS THEN SCRAPE_HELPERS[p] ELSE p

\* The ids of the catalog's built-ins of a platform, and of all its built-ins.
PlatformBuiltinIds(p) ==
    {Catalog[i].id : i \in {j \in 1..Len(Catalog) :
                               Catalog[j].builtin /\ p \in Catalog[j].platforms}}

BuiltinIds == {Catalog[i].id : i \in {j \in 1..Len(Catalog) : Catalog[j].builtin}}

\* The ids of the explicit directives of the definition: the string statements
\* without the "__" prefix that name a directive of the catalog.
ExplicitDirectiveIds ==
    {Catalog[i].id : i \in {j \in 1..Len(Catalog) :
        \E n \in 1..Len(defn.directives) :
            /\ defn.directives[n].kind = "str"
            /\ defn.directives[n].s = Catalog[j].id
            /\ ~StartsWith(defn.directives[n].s, <<"_", "_">>)}}

ResolvedIds == Range(directive_ids(device.device))

\* C1: when a Device is constructed, with the merged `builtins` option true
\* its directives contain every explicit directive and every built-in of its
\* platform; with a list of ids its built-ins are exactly the platform
\* built-ins whose id is in the list; with false it has no built-in and its
\* directives are exactly the explicit ones.
C1_DirectiveResolution ==
    (pc = "constructed" /\ device.ok) =>
        LET options == DirectiveOptions(defn.directives)
            builtins == PlatformBuiltinIds(device.device.platform)
        IN  /\ (options.vtype = "bool" /\ options.b) =>
                   (ExplicitDirectiveIds \cup builtins) \subseteq ResolvedIds
            /\ options.vtype = "list" =>
                   ResolvedIds \cap BuiltinIds = builtins \cap Range(options.l)
            /\ (options.vtype = "bool" /\ ~options.b) =>
                   /\ ResolvedIds \cap BuiltinIds = {}
                   /\ ResolvedIds = ExplicitDirectiveIds

\* A device constructed with `builtins: [X]` on a platform with a second built-in.
C1_Witness ==
    /\ pc = "constructed" /\ device.ok
    /\ DirectiveOptions(defn.directives).vtype = "list"
    /\ BuiltinPingId \in ResolvedIds
    /\ BuiltinRouteId \in PlatformBuiltinIds(device.device.platform) \ ResolvedIds
    /\ BgpId \in ResolvedIds

\* The placeholder keys, other than `target`, of the commands of a directive list.
PlaceholderKeys(directives) ==
    {tok.text : tok \in
        {t \in UNION {Range(c) : c \in
                UNION {Range(r.commands) : r \in
                    UNION {Range(d.rules) : d \in Range(directives)}}} :
            t.kind = "field" /\ t.text # "target"}}

\* The definition passes everything that precedes the attribute check.
PassesUntilAttrs ==
    /\ ~defn.name.none
    /\ Canonical(defn.platform) \in SupportedPlatforms
    /\ ~(defn.structured_output = "True"
            /\ Canonical(defn.platform) \notin SUPPORTED_STRUCTURED_OUTPUT)

\* The keys the resolved commands of the definition use and its attrs lack.
MissingKeys ==
    PlaceholderKeys(validate_device(_generate_id(defn).values).values.directives)
        \ DOMAIN defn.attrs

\* C2: every placeholder key other than `target` of every command of a
\* constructed Device's directives is a key of its attrs; a definition that
\* reaches the attribute check with such a key missing yields no Device but a
\* ConfigError naming the device and a missing key.
C2_AttrsCoverPlaceholders ==
    pc = "constructed" =>
        /\ device.ok =>
               PlaceholderKeys(device.device.directives) \subseteq DOMAIN device.device.attrs
        /\ (PassesUntilAttrs /\ MissingKeys # {}) =>
               /\ ~device.ok
               /\ device.error.type = "ConfigError"
               /\ device.error.d = (IF defn.display_name.none
                                    THEN defn.name ELSE defn.display_name)
               /\ device.error.a \in MissingKeys

\* A construction that fails on a key only a built-in's command uses.
C2_Witness ==
    /\ pc = "constructed" /\ ~device.ok
    /\ device.error.msg = "missing attribute"
    /\ device.error.a = "src"
    /\ "vrf" \in DOMAIN defn.attrs
    /\ defn.directives = <<Str(BgpId)>>

\* C5: a definition without a name, or whose effective name is empty after
\* the disallowed characters are stripped, fails with ConfigError.
C5_NoUsableNameFails ==
    (/\ pc = "constructed"
     /\ \/ defn.name.none
        \/ Scrub(IF defn.display_name.none THEN defn.name.v ELSE defn.display_name.v) = <<>>)
    => (~device.ok /\ device.error.type = "ConfigError")

\* C7: a definition that declares an alias is resolved like the same
\* definition declaring the canonical platform: the same outcome, and in a
\* Device the canonical platform, that platform's built-ins and its
\* structured-output default.
C7_AliasResolvesAsCanonical ==
    (pc = "constructed" /\ defn.platform \in DOMAIN SCRAPE_HELPERS) =>
        LET canonical == [defn EXCEPT !.platform = SCRAPE_HELPERS[defn.platform]]
        IN  /\ device \in DeviceInit(canonical)
            /\ DeviceInit(defn) = DeviceInit(canonical)
            /\ device.ok =>
                   /\ device.device.platform = SCRAPE_HELPERS[defn.platform]
                   /\ (DirectiveOptions(defn.directives).vtype = "bool"
                          /\ DirectiveOptions(defn.directives).b)
                      => (PlatformBuiltinIds(SCRAPE_HELPERS[defn.platform])
                             \subseteq ResolvedIds)
                   /\ defn.structured_output = Unset =>
                          device.device.structured_output =
                              (SCRAPE_HELPERS[defn.platform] \in SUPPORTED_STRUCTURED_OUTPUT)

\* A device declared with the alias `ios` and constructed with a built-in of cisco_ios.
C7_Witness ==
    /\ pc = "constructed" /\ device.ok
    /\ defn.platform = "ios"
    /\ device.device.platform = "cisco_ios"
    /\ BuiltinPingId \in ResolvedIds

\* C8: an unset structured_output becomes true exactly on a platform that
\* supports structured output; an explicit true on a supported platform
\* without it fails with ConfigError; no Device has structured_output true
\* on a platform outside the supported set.
C8_StructuredOutput ==
    pc = "constructed" =>
        /\ (device.ok /\ defn.structured_output = Unset) =>
               device.device.structured_output =
                   (Canonical(defn.platform) \in SUPPORTED_STRUCTURED_OUTPUT)
        /\ (/\ defn.structured_output = "True"
            /\ ~defn.name.none
            /\ Canonical(defn.platform) \in SupportedPlatforms \ SUPPORTED_STRUCTURED_OUTPUT)
           => (/\ ~device.ok
               /\ device.error.type = "ConfigError"
               /\ device.error.msg = "structured_output")
        /\ (device.ok /\ device.device.structured_output) =>
               device.device.platform \in SUPPORTED_STRUCTURED_OUTPUT

\* An explicit true refused on cisco_ios.
C8_Witness ==
    /\ pc = "constructed" /\ ~device.ok
    /\ defn.structured_output = "True"
    /\ defn.platform = "ios"
    /\ device.error.msg = "structured_output"
    /\ device.error.p = "cisco_ios"

\* The characters of a derived id.
IdChars == LowerChars \cup DigitChars \cup {"_", "-"}

\* A string without its leading and trailing whitespace.
Trim(s) ==
    LET solid == {i \in 1..Len(s) : s[i] \notin Whitespace}
    IN  IF solid = {} THEN <<>> ELSE SubSeq(s, Min(solid), Max(solid))

\* A string with each maximal run of whitespace replaced by one underscore.
NotDropped(c) == c # ""

CollapseRuns(s) ==
    SelectSeq([i \in 1..Len(s) |->
                  IF s[i] \notin Whitespace THEN s[i]
                  ELSE IF i > 1 /\ s[i - 1] \in Whitespace THEN "" ELSE "_"],
              NotDropped)

\* C6 as amended: the derived id has only characters of [a-z0-9_-]; it is the
\* lower-cased name without its disallowed characters and without leading and
\* trailing whitespace, each remaining whitespace run replaced by one
\* underscore; the id derived from a derived id is that id.
C6_IdOfTrimmedName ==
    pc \in {"id", "id2"} =>
        /\ Range(slug) \subseteq IdChars
        /\ slug = Lower(CollapseRuns(Trim(Scrub(rawname))))
        /\ pc = "id2" => reslug = slug

\* C6 as claimed: the derived id has only characters of [a-z0-9_-]; it is the
\* lower-cased name without its disallowed characters, each whitespace run
\* replaced by one underscore; the id derived from a derived id is that id.
C6_IdOfName ==
    pc \in {"id", "id2"} =>
        /\ Range(slug) \subseteq IdChars
        /\ slug = Lower(CollapseRuns(Scrub(rawname)))
        /\ pc = "id2" => reslug = slug

\* A name with an inner and a trailing whitespace run and an upper-case letter.
C6_Witness ==
    /\ pc = "id2"
    /\ rawname = <<"A", " ", "\t">>
    /\ slug = <<"a">>
    /\ reslug = slug

\* The definitions of the list that were constructed with the id of the j-th.
SameId(j) == {k \in 1..Len(constructed) : constructed[k].id = constructed[j].id}

\* The entries of `objects` with the id of the j-th constructed Device.
EntriesFor(j) ==
    {directory.objects[k] : k \in {n \in 1..Len(directory.objects) :
                                      directory.objects[n].id = constructed[j].id}}

\* C3 as amended: the directory keeps exactly one entry per derived id, and it
\* is the first Device constructed with that id.
C3_FirstConstructedWins ==
    directory.published =>
        \A j \in 1..Len(constructed) :
            /\ Cardinality({k \in 1..Len(directory.objects) :
                               directory.objects[k].id = constructed[j].id}) = 1
            /\ EntriesFor(j) = {constructed[Min(SameId(j))]}

\* C3 as claimed: the directory keeps exactly one entry per derived id, and it
\* is the last Device constructed with that id.
C3_LastConstructedWins ==
    directory.published =>
        \A j \in 1..Len(constructed) :
            /\ Cardinality({k \in 1..Len(directory.objects) :
                               directory.objects[k].id = constructed[j].id}) = 1
            /\ EntriesFor(j) = {constructed[Max(SameId(j))]}

\* A directory built from two definitions that derive the same id and differ.
C3_Witness ==
    /\ directory.published
    /\ Len(constructed) = 2
    /\ constructed[1].id = constructed[2].id
    /\ constructed[1] # constructed[2]
    /\ Len(directory.objects) = 1

\* Some outcome of the definition is a Device.
Validates(definition) == \E outcome \in DeviceInit(definition) : outcome.ok

\* C4: an error of a definition leaves Devices.__init__ at the first failing
\* definition, with that definition's error; then no directory is published,
\* nor can one be; a published directory has every definition valid.
C4_AllOrNothing ==
    /\ pc = "raised" =>
           LET k == Len(constructed) + 1
           IN  /\ ~directory.published
               /\ ~ENABLED Publish
               /\ k <= Len(input_params)
               /\ error \in {o.error : o \in {x \in DeviceInit(input_params[k]) : ~x.ok}}
               /\ \A j \in 1..(k - 1) : Validates(input_params[j])
    /\ directory.published =>
           /\ error = NoError
           /\ \A j \in 1..Len(input_params) : Validates(input_params[j])

\* An unsupported platform met after a valid definition was ingested.
C4_Witness ==
    /\ pc = "raised"
    /\ error.type = "UnsupportedDevice"
    /\ Len(constructed) = 1
    /\ objects # {}
    /\ ~directory.published

\* The directives in use: those of the devices of the directory.
InUse ==
    {directory.objects[i].directives[j] :
        <<i, j>> \in {x \in (1..Len(directory.objects)) \X (1..Len(Catalog)) :
                         x[2] <= Len(directory.objects[x[1]].directives)}}

\* The plugin files a directive refers to.
PluginFiles(d) == {Path(d.plugins[n]) : n \in 1..Len(d.plugins)}

\* C9: the keys of directive_plugins() are the plugin files of the directives
\* in use; the tuple of a plugin holds, once each, the ids of the directives in
\* use that refer to it.
C9_PluginIndex ==
    plugins.called =>
        /\ DOMAIN plugins.result = UNION {PluginFiles(d) : d \in InUse}
        /\ \A k \in DOMAIN plugins.result :
              /\ Range(plugins.result[k]) = {d.id : d \in {x \in InUse : k \in PluginFiles(x)}}
              /\ Len(plugins.result[k]) = Cardinality(Range(plugins.result[k]))

\* The index {p1: (A,), p2: (A, B)}, with further plugins of built-ins.
C9_Witness ==
    /\ plugins.called
    /\ <<"p1">> \in DOMAIN plugins.result
    /\ <<"p2">> \in DOMAIN plugins.result
    /\ plugins.result[<<"p1">>] = <<BgpId>>
    /\ plugins.result[<<"p2">>] = <<PingId, BgpId>>

\* C10: in a constructed directory `ids` and `objects` have the same number
\* of entries, and the lookup of an entry of `ids` (of `hostnames`) returns a
\* Device whose id (name) is that entry.
C10_CollectionsAgree ==
    /\ directory.published => Len(directory.ids) = Len(directory.objects)
    /\ pc = "looked" =>
           /\ accessor \in Range(directory.ids) =>
                  (lookup.found /\ lookup.device.id = accessor)
           /\ accessor \in Range(directory.hostnames) =>
                  (lookup.found /\ lookup.device.name = accessor)

===========================================================================
